---- MODULE Spec2Model ----
(***************************************************************************)
(* ChaCha20Poly1305Guard: the AEAD composition of chacha20poly1305guard.go *)
(* (New / NewX / NonceSize / Overhead / Seal / Open / tag) as a state      *)
(* machine.  A state holds the instance k and one call frame per caller    *)
(* goroutine; each action is one block of statements of Seal or Open.      *)
(*                                                                         *)
(* The stream cipher (chacha20guard) and the MAC (poly1305) are imported   *)
(* packages.  They are modelled by what the composition needs of them: a   *)
(* position-indexed keystream that depends on key, mode, nonce and         *)
(* position, and a MAC that is collision free on the byte strings the      *)
(* model builds (every keystream, plaintext, associated-data and nonce     *)
(* byte below 4, framed messages of at most 28 bytes).                     *)
(***************************************************************************)
EXTENDS Integers, Sequences, FiniteSets, TLC

\* ------------------------------------------------------------- bounds
\* Longest plaintext and longest associated data a caller passes.
MaxLen == 2

\* ---------------------------------------------------------- constants
KeySize == 32
ChaChaNonceSize == 8
XNonceSize == 24
TagSize == 16

\* Variant: only the 32 bytes of the Poly1305 key are drawn before the payload.
SubkeyLenHalf == 16 + 16

SubkeyLen == 64
PolyKeyLen == 32
LenFieldSize == 8

\* -------------------------------------------------------------- state
VARIABLES
    k,        \* the instance New / NewX returned (ek, isXChaCha)
    newErr,   \* the error the last New / NewX call returned
    callers,  \* the goroutines that call Seal and Open on k
    fr        \* fr[p]: the frame of caller p's call in progress

vars == <<k, newErr, callers, fr>>

\* --------------------------------------------------------- byte level
Zeros(n) == [i \in 1..n |-> 0]

RECURSIVE XorBits(_, _, _)
XorBits(a, b, n) ==
    IF n = 0 THEN 0
    ELSE ((a + b) % 2) + 2 * XorBits(a \div 2, b \div 2, n - 1)

\* a ^ b on two bytes
Xor(a, b) == XorBits(a, b, 8)

RECURSIVE Shr8(_, _)
Shr8(v, j) == IF j = 0 THEN v ELSE Shr8(v \div 256, j - 1)

\* binary.LittleEndian.PutUint64(m[off:], v): m with the 8 bytes after
\* offset off (0-based) overwritten by v, least significant byte first.
PutUint64(m, off, v) ==
    [i \in 1..Len(m) |->
        IF i > off /\ i <= off + LenFieldSize
        THEN Shr8(v, i - off - 1) % 256
        ELSE m[i]]

\* copy(m[off:], src): min(len(m) - off, len(src)) bytes of src into m.
Copy(m, off, src) ==
    [i \in 1..Len(m) |->
        IF i > off /\ i <= off + Len(src) THEN src[i - off] ELSE m[i]]

\* s[lo:hi] of a Go slice (0-based, hi exclusive), for 0 <= lo <= hi <= len.
Slice(s, lo, hi) == [i \in 1..(hi - lo) |-> s[lo + i]]

\* ------------------------------------------------------ collaborators
\* Byte i (0-based) of the key stream chacha20guard produces for (key, nonce)
\* in the plain (New) or the extended-nonce (NewX) variant.  The package is
\* imported, not part of this repository: this is a stand-in that depends on
\* the key, the variant, every nonce byte and the position.
KeyStreamByte(key, isX, nonce, i) ==
    ( key[(i % KeySize) + 1]
    + 3 * nonce[(i % Len(nonce)) + 1]
    + (i \div 32)
    + (IF isX THEN 2 ELSE 0) ) % 4


\* Variant: one stream kept across calls, so a call starts where the calls
\* in progress have left it.
StreamStartShared == 64 * Cardinality({q \in DOMAIN fr : fr[q].c.live})

\* chacha20guard.New / NewX(k.ek, nonce): a stream at position 0.
StreamStart == 0

NewStream(kk, nonce) ==
    [live |-> TRUE, key |-> kk.ek, isX |-> kk.isXChaCha,
     nonce |-> nonce, pos |-> StreamStart]

NoStream ==
    [live |-> FALSE, key |-> <<>>, isX |-> FALSE, nonce |-> <<>>, pos |-> 0]

\* c.XORKeyStream(dst, src): dst[j] = src[j] ^ next key-stream byte; the
\* stream advances by len(src).
XORKeyStream(c, src) ==
    [out |-> [j \in 1..Len(src) |->
                 Xor(src[j], KeyStreamByte(c.key, c.isX, c.nonce, c.pos + j - 1))],
     c   |-> [c EXCEPT !.pos = c.pos + Len(src)]]

\* Four bytes of s after offset off (0-based), two bits each, in one byte;
\* bytes past the end of s count as 0.
Pack4(s, off) ==
    LET at(t) == IF off + t + 1 <= Len(s) THEN s[off + t + 1] % 4 ELSE 0
    IN  at(0) + 4 * at(1) + 16 * at(2) + 64 * at(3)

\* poly1305.Sum(&out, m, &key): the 16-byte tag.  The stand-in packs the key
\* (bytes 1..8), len(m) (byte 9) and m (bytes 10..16), so that distinct
\* (key, m) give distinct tags while every byte is below 4 and len(m) <= 28.
Poly1305Sum(m, key) ==
    [j \in 1..TagSize |->
        IF j <= 8 THEN Pack4(key, 4 * (j - 1))
        ELSE IF j = 9 THEN Len(m) % 256
        ELSE Pack4(m, 4 * (j - 10))]


\* Variant: only the first half of the tag is compared.
ConstantTimeCompareHalf(x, y) ==
    IF Len(x) # Len(y) THEN 0
    ELSE IF \A i \in 1..(Len(x) \div 2) : Xor(x[i], y[i]) = 0 THEN 1 ELSE 0

\* subtle.ConstantTimeCompare(x, y): 1 when equal, 0 otherwise (0 at once
\* when the lengths differ); every byte pair is XORed, none is skipped.
ConstantTimeCompare(x, y) ==
    IF Len(x) # Len(y) THEN 0
    ELSE IF \A i \in 1..Len(x) : Xor(x[i], y[i]) = 0 THEN 1 ELSE 0

\* ------------------------------------------------------------- slices
\* A []byte argument dst: nil, or len bytes of a backing array arr (cap =
\* Len(arr)) that the caller keeps.
NilDst == [nil |-> TRUE, arr |-> <<>>, len |-> 0]

NilBytes == [nil |-> TRUE, bytes |-> <<>>]

\* append(dst, x...): the returned slice and dst's backing array afterwards.
\* Nothing to append returns dst itself; within capacity the bytes are
\* written into dst's array; otherwise a new array is allocated.
GoAppend(dst, x) ==
    IF Len(x) = 0
    THEN [ret |-> [nil |-> dst.nil, bytes |-> Slice(dst.arr, 0, dst.len)],
          arr |-> dst.arr]
    ELSE IF dst.len + Len(x) <= Len(dst.arr)
    THEN LET a == Copy(dst.arr, dst.len, x)
         IN  [ret |-> [nil |-> FALSE, bytes |-> Slice(a, 0, dst.len + Len(x))],
              arr |-> a]
    ELSE [ret |-> [nil |-> FALSE, bytes |-> Slice(dst.arr, 0, dst.len) \o x],
          arr |-> dst.arr]

\* ------------------------------------------------------- the instance
NoInstance == [built |-> FALSE, ek |-> <<>>, isXChaCha |-> FALSE]

NonceSize(kk) == IF kk.isXChaCha THEN XNonceSize ELSE ChaChaNonceSize

Overhead == TagSize


\* Variant: the ciphertext is framed before the associated data.
TagMessageCtFirst(ciphertext, data) ==
    LET m0 == Zeros(Len(ciphertext) + Len(data) + 8 + 8)
        m1 == Copy(m0, 0, ciphertext)
        m2 == PutUint64(m1, Len(ciphertext), Len(ciphertext))
        m3 == Copy(m2, Len(ciphertext) + 8, data)
    IN  PutUint64(m3, Len(ciphertext) + 8 + Len(data), Len(data))

\* ---------------------------------------------------------------- tag
\* The message tag() hands to poly1305.Sum.
TagMessage(ciphertext, data) ==
    LET m0 == Zeros(Len(ciphertext) + Len(data) + 8 + 8)
        m1 == Copy(m0, 0, data)
        m2 == PutUint64(m1, Len(data), Len(data))
        m3 == Copy(m2, Len(data) + 8, ciphertext)
    IN  PutUint64(m3, Len(data) + 8 + Len(ciphertext), Len(ciphertext))

tag(key, ciphertext, data) == Poly1305Sum(TagMessage(ciphertext, data), key)

\* ------------------------------------------------------- call frames
\* The locals of one Seal or Open call.  Buffers not yet allocated are <<>>.
\* tagKey is the by-value copy of poly1305Key that tag() receives, m the
\* message tag() builds.  orig is the caller's own note of where the input
\* of an Open call came from (no field of the program).
NoOrigin == [kind |-> "none", nonce |-> <<>>, pt |-> <<>>, data |-> <<>>]

EmptyFrame ==
    [op |-> "none", pc |-> "idle",
     dst |-> NilDst, nonce |-> <<>>, input |-> <<>>, data |-> <<>>,
     c |-> NoStream, subkey |-> <<>>, poly1305Key |-> <<>>,
     ciphertext |-> <<>>, digest |-> <<>>,
     m |-> <<>>, tagKey |-> <<>>, tg |-> <<>>, plaintext |-> <<>>,
     ret |-> NilBytes, dstArr |-> <<>>, err |-> "nil", panicked |-> "no",
     orig |-> NoOrigin]

CallFrame(op, dst, nonce, input, data, orig) ==
    [EmptyFrame EXCEPT !.op = op, !.dst = dst, !.nonce = nonce,
                       !.input = input, !.data = data, !.dstArr = dst.arr,
                       !.orig = orig]

Panic(f, what) == [f EXCEPT !.pc = "done", !.panicked = what]

\* Seal, lines 84-101: the nonce check, then the cipher stream.
SealBegin(kk, dst, nonce, plaintext, data) ==
    LET f == CallFrame("Seal", dst, nonce, plaintext, data, NoOrigin)
    IN  IF Len(nonce) # NonceSize(kk)
        THEN Panic(f, "ErrInvalidNonce")
        ELSE [f EXCEPT !.pc = "subkey", !.c = NewStream(kk, nonce)]

\* Seal 105-111 and Open 145-151: 64 bytes of key stream into subkey, the
\* first 32 of them copied into poly1305Key.
DeriveSubkey(f) ==
    LET x == XORKeyStream(f.c, Zeros(SubkeyLen))
    IN  [f EXCEPT !.subkey = x.out, !.c = x.c,
                  !.poly1305Key = [i \in 1..PolyKeyLen |-> x.out[i]],
                  !.pc = IF f.op = "Seal" THEN "encrypt" ELSE "tag"]

\* Seal, lines 113-114.
SealEncrypt(f) ==
    LET x == XORKeyStream(f.c, f.input)
    IN  [f EXCEPT !.ciphertext = x.out, !.c = x.c, !.pc = "tag"]

\* Seal 116 and Open 153: the call of tag().
ComputeTag(f) ==
    [f EXCEPT !.tagKey = f.poly1305Key,
              !.m = TagMessage(f.ciphertext, f.data),
              !.tg = tag(f.poly1305Key, f.ciphertext, f.data),
              !.pc = IF f.op = "Seal" THEN "ret" ELSE "verify"]


\* Variant: the envelope is returned in a buffer of its own, dst left out.
SealReturnNoDst(f) ==
    [f EXCEPT !.ret = [nil |-> FALSE, bytes |-> f.ciphertext \o f.tg],
              !.pc = "done"]

\* Seal, line 118.
SealReturn(f) ==
    LET a == GoAppend([f.dst EXCEPT !.arr = f.dstArr], f.ciphertext \o f.tg)
    IN  [f EXCEPT !.ret = a.ret, !.dstArr = a.arr, !.pc = "done"]


\* Variant: the input is split before the nonce is checked.
OpenBeginSliceFirst(kk, dst, nonce, ciphertext, data, orig) ==
    LET f == CallFrame("Open", dst, nonce, ciphertext, data, orig)
        n == Len(ciphertext) - Overhead
    IN  IF n < 0
        THEN Panic(f, "slice bounds out of range")
        ELSE IF Len(nonce) # NonceSize(kk)
        THEN Panic(f, "ErrInvalidNonce")
        ELSE [f EXCEPT !.digest = Slice(ciphertext, n, Len(ciphertext)),
                       !.ciphertext = Slice(ciphertext, 0, n),
                       !.c = NewStream(kk, nonce),
                       !.pc = "subkey"]

\* Open, lines 121-141: the nonce check, the split of the input into
\* ciphertext and digest (a negative slice bound is a run-time panic), then
\* the cipher stream.
OpenBegin(kk, dst, nonce, ciphertext, data, orig) ==
    LET f == CallFrame("Open", dst, nonce, ciphertext, data, orig)
        n == Len(ciphertext) - Overhead
    IN  IF Len(nonce) # NonceSize(kk)
        THEN Panic(f, "ErrInvalidNonce")
        ELSE IF n < 0
        THEN Panic(f, "slice bounds out of range")
        ELSE [f EXCEPT !.digest = Slice(ciphertext, n, Len(ciphertext)),
                       !.ciphertext = Slice(ciphertext, 0, n),
                       !.c = NewStream(kk, nonce),
                       !.pc = "subkey"]


\* Variant: the payload is decrypted before the tags are compared.
OpenVerifyDecryptFirst(f) ==
    LET x == XORKeyStream(f.c, f.ciphertext)
    IN  IF ConstantTimeCompare(f.tg, f.digest) # 1
        THEN [f EXCEPT !.plaintext = x.out, !.c = x.c, !.ret = NilBytes,
                       !.err = "ErrAuthFailed", !.pc = "done"]
        ELSE [f EXCEPT !.pc = "decrypt"]

\* Open, lines 155-157.
OpenVerify(f) ==
    IF ConstantTimeCompare(f.tg, f.digest) # 1
    THEN [f EXCEPT !.ret = NilBytes, !.err = "ErrAuthFailed", !.pc = "done"]
    ELSE [f EXCEPT !.pc = "decrypt"]


\* Variant: the payload is decrypted with the stream rewound to position 0.
OpenDecryptRestart(f) ==
    LET x == XORKeyStream([f.c EXCEPT !.pos = 0], f.ciphertext)
    IN  [f EXCEPT !.plaintext = x.out, !.c = x.c, !.pc = "ret"]

\* Open, lines 159-160.
OpenDecrypt(f) ==
    LET x == XORKeyStream(f.c, f.ciphertext)
    IN  [f EXCEPT !.plaintext = x.out, !.c = x.c, !.pc = "ret"]

\* Open, line 162.
OpenReturn(f) ==
    LET a == GoAppend([f.dst EXCEPT !.arr = f.dstArr], f.plaintext)
    IN  [f EXCEPT !.ret = a.ret, !.dstArr = a.arr, !.err = "nil", !.pc = "done"]

\* A whole Seal call, and the envelope Seal(nil, nonce, plaintext, data).
SealRun(kk, dst, nonce, plaintext, data) ==
    LET f == SealBegin(kk, dst, nonce, plaintext, data)
    IN  IF f.pc = "done" THEN f
        ELSE SealReturn(ComputeTag(SealEncrypt(DeriveSubkey(f))))

Envelope(kk, nonce, plaintext, data) ==
    SealRun(kk, NilDst, nonce, plaintext, data).ret.bytes

\* ------------------------------------------------------------- inputs
\* What the callers pass.  With one caller the inputs are wide; with two
\* concurrent callers they are narrow.
ByteSeqs(alphabet, n) == UNION {[1..l -> alphabet] : l \in 0..n}

KeyA == [i \in 1..KeySize |-> i % 4]
KeyB == [i \in 1..KeySize |-> (3 * i + 1) % 4]
ShortKey == Zeros(KeySize - 1)

Keys(wide) == IF wide THEN {KeyA, KeyB, ShortKey} ELSE {KeyA, ShortKey}

Plaintexts(wide) == IF wide THEN ByteSeqs({1, 2}, MaxLen) ELSE {<<>>, <<1>>}

ADs(wide) == IF wide THEN ByteSeqs({3}, MaxLen) ELSE {<<>>, <<3>>}

SpareDst == [nil |-> FALSE, arr |-> <<7, 0, 0>>, len |-> 1]

Dsts(wide) == IF wide THEN {NilDst, SpareDst} ELSE {NilDst}

GoodNonces(kk, wide) ==
    LET z == Zeros(NonceSize(kk))
    IN  IF wide THEN {z, [z EXCEPT ![1] = 1]} ELSE {z}

BadNonces(kk, wide) ==
    LET n == NonceSize(kk)
    IN  IF wide
        THEN {Zeros(0), Zeros(n - 1), Zeros(n + 1),
              Zeros(XNonceSize + ChaChaNonceSize - n)}
        ELSE {Zeros(n + 1)}

\* s with bit b of its byte i (1-based) flipped.
FlipAt(s, i, b) == [s EXCEPT ![i] = Xor(s[i], 2 ^ b)]

Origin(kind, nonce, pt, data) ==
    [kind |-> kind, nonce |-> nonce, pt |-> pt, data |-> data]

OpenArgs(nonce, input, data, orig) ==
    [nonce |-> nonce, input |-> input, data |-> data, orig |-> orig]

\* The (nonce, input, data) an Open call is given: an envelope E that Seal
\* made for (n, pt, ad), as it is or with one bit of its ciphertext, of its
\* tag, of the associated data or of the nonce flipped, or cut short of the
\* tag size, or with a nonce of the wrong length.
OpenInputs(kk, wide) ==
    UNION {
      LET E  == Envelope(kk, n, pt, ad)
          O(kind) == Origin(kind, n, pt, ad)
          lowBits == IF wide THEN {0, 1} ELSE {0}
          tagAt   == IF wide THEN 1..TagSize ELSE {1}
          tagBits == IF wide THEN {0, 7} ELSE {0}
          cuts    == IF wide THEN {0, 1, TagSize - 1} ELSE {TagSize - 1}
      IN  {OpenArgs(n, E, ad, O("intact"))}
          \cup {OpenArgs(n, FlipAt(E, i, b), ad, O("ciphertext")) :
                    i \in 1..Len(pt), b \in lowBits}
          \cup {OpenArgs(n, FlipAt(E, Len(pt) + j, b), ad, O("tag")) :
                    j \in tagAt, b \in tagBits}
          \cup {OpenArgs(n, E, FlipAt(ad, i, b), O("data")) :
                    i \in 1..Len(ad), b \in lowBits}
          \cup {OpenArgs(FlipAt(n, i, b), E, ad, O("nonce")) :
                    i \in (IF wide THEN 1..Len(n) ELSE {1}), b \in lowBits}
          \cup {OpenArgs(n, SubSeq(E, 1, l), ad, O("short")) : l \in cuts}
          \cup {OpenArgs(x, E, ad, O("badnonce")) : x \in BadNonces(kk, wide)}
          \cup {OpenArgs(x, <<>>, ad, O("badnonce")) : x \in BadNonces(kk, wide)}
      : n \in GoodNonces(kk, wide), pt \in Plaintexts(wide), ad \in ADs(wide)}

\* ------------------------------------------------------------ callers
Procs == {1, 2}

Wide == Cardinality(callers) = 1

Init ==
    /\ k = NoInstance
    /\ newErr = "nil"
    /\ callers = {1}
    /\ fr = [p \in Procs |-> EmptyFrame]

InitConc ==
    /\ k = NoInstance
    /\ newErr = "nil"
    /\ callers = Procs
    /\ fr = [p \in Procs |-> EmptyFrame]

\* New(key), lines 59-69.
New ==
    /\ ~k.built
    /\ \E key \in Keys(Wide) :
          IF Len(key) # KeySize
          THEN /\ newErr' = "ErrInvalidKey"
               /\ k' = k
          ELSE /\ newErr' = "nil"
               /\ k' = [built |-> TRUE, ek |-> key, isXChaCha |-> FALSE]
    /\ UNCHANGED <<callers, fr>>

\* NewX(key), lines 45-55.
NewX ==
    /\ ~k.built
    /\ \E key \in Keys(Wide) :
          IF Len(key) # KeySize
          THEN /\ newErr' = "ErrInvalidKey"
               /\ k' = k
          ELSE /\ newErr' = "nil"
               /\ k' = [built |-> TRUE, ek |-> key, isXChaCha |-> TRUE]
    /\ UNCHANGED <<callers, fr>>

\* Caller p enters k.Seal(dst, nonce, plaintext, data).
SealCall(p) ==
    /\ k.built
    /\ fr[p].pc = "idle"
    /\ \E dst \in Dsts(Wide), pt \in Plaintexts(Wide), ad \in ADs(Wide),
          nonce \in GoodNonces(k, Wide) \cup BadNonces(k, Wide) :
          fr' = [fr EXCEPT ![p] = SealBegin(k, dst, nonce, pt, ad)]
    /\ UNCHANGED <<k, newErr, callers>>

\* Caller p enters k.Open(dst, nonce, ciphertext, data).
OpenCall(p) ==
    /\ k.built
    /\ fr[p].pc = "idle"
    /\ \E dst \in Dsts(Wide), a \in OpenInputs(k, Wide) :
          fr' = [fr EXCEPT ![p] = OpenBegin(k, dst, a.nonce, a.input, a.data, a.orig)]
    /\ UNCHANGED <<k, newErr, callers>>

\* Caller p's call runs its next block of statements.
Step(p, op, pc, after) ==
    /\ fr[p].op = op
    /\ fr[p].pc = pc
    /\ fr' = [fr EXCEPT ![p] = after]
    /\ UNCHANGED <<k, newErr, callers>>

SealSubkey(p) == Step(p, "Seal", "subkey", DeriveSubkey(fr[p]))
SealXor(p) == Step(p, "Seal", "encrypt", SealEncrypt(fr[p]))
SealTag(p) == Step(p, "Seal", "tag", ComputeTag(fr[p]))
SealRet(p) == Step(p, "Seal", "ret", SealReturn(fr[p]))
OpenSubkey(p) == Step(p, "Open", "subkey", DeriveSubkey(fr[p]))
OpenTag(p) == Step(p, "Open", "tag", ComputeTag(fr[p]))
OpenCompare(p) == Step(p, "Open", "verify", OpenVerify(fr[p]))
OpenXor(p) == Step(p, "Open", "decrypt", OpenDecrypt(fr[p]))
OpenRet(p) == Step(p, "Open", "ret", OpenReturn(fr[p]))

\* Caller p is done with the results of its call (or recovered its panic).
Forget(p) ==
    /\ fr[p].pc = "done"
    /\ fr' = [fr EXCEPT ![p] = EmptyFrame]
    /\ UNCHANGED <<k, newErr, callers>>

Next ==
    \/ New
    \/ NewX
    \/ \E p \in callers : SealCall(p)
    \/ \E p \in callers : SealSubkey(p)
    \/ \E p \in callers : SealXor(p)
    \/ \E p \in callers : SealTag(p)
    \/ \E p \in callers : SealRet(p)
    \/ \E p \in callers : OpenCall(p)
    \/ \E p \in callers : OpenSubkey(p)
    \/ \E p \in callers : OpenTag(p)
    \/ \E p \in callers : OpenCompare(p)
    \/ \E p \in callers : OpenXor(p)
    \/ \E p \in callers : OpenRet(p)
    \/ \E p \in callers : Forget(p)

Spec == Init /\ [][Next]_vars

SpecConc == InitConc /\ [][Next]_vars

\* A whole Open call.
OpenRun(kk, dst, nonce, ciphertext, data, orig) ==
    LET f == OpenBegin(kk, dst, nonce, ciphertext, data, orig)
        g == IF f.pc = "done" THEN f ELSE OpenVerify(ComputeTag(DeriveSubkey(f)))
    IN  IF g.pc = "done" THEN g ELSE OpenReturn(OpenDecrypt(g))

\* ------------------------------------------------------------- claims
Frames == {fr[p] : p \in callers}

Returned(f, op) == f.op = op /\ f.pc = "done" /\ f.panicked = "no"

AllZero(s) == \A i \in 1..Len(s) : s[i] = 0

\* Byte i (0-based) of the key stream of the call with frame f.
KS(f, i) == KeyStreamByte(k.ek, k.isXChaCha, f.nonce, i)

\* n as 8 bytes, least significant first.
LE8(n) == [j \in 1..8 |-> Shr8(n, j - 1) % 256]

\* C1: Open(nil, nonce, Seal(nil, nonce, plaintext, ad), ad) returns exactly
\* plaintext and a nil error, for both variants, every key, nonce, plaintext
\* and associated data (empty ones included).
C1_RoundTrip ==
    \A f \in Frames :
        (f.op = "Open" /\ f.pc = "done" /\ f.orig.kind = "intact" /\ f.dst = NilDst)
        => /\ f.panicked = "no"
           /\ f.err = "nil"
           /\ f.ret.bytes = f.orig.pt

C1_Witness ==
    \E f \in Frames :
        /\ Returned(f, "Open") /\ f.orig.kind = "intact" /\ f.dst = NilDst
        /\ Len(f.orig.pt) = 2 /\ Len(f.data) = 1
        /\ f.err = "nil" /\ f.ret.bytes = f.orig.pt

\* C2: in Open no key-stream byte past the 64-byte block is drawn and no
\* plaintext buffer exists before the tags were compared and found equal; when
\* they differ Open returns (nil, ErrAuthFailed), never decrypts, and leaves
\* dst's backing array as the caller passed it.
C2_VerifyThenDecrypt ==
    \A f \in Frames :
        f.op = "Open" =>
          /\ (f.c.pos > SubkeyLen \/ f.plaintext # <<>>)
                => /\ f.pc \in {"ret", "done"}
                   /\ ConstantTimeCompare(f.tg, f.digest) = 1
          /\ (f.pc = "done" /\ f.panicked = "no" /\ f.tg # f.digest)
                => /\ f.err = "ErrAuthFailed"
                   /\ f.ret = NilBytes
                   /\ f.plaintext = <<>>
                   /\ f.c.pos = SubkeyLen
                   /\ f.dstArr = f.dst.arr
          /\ (f.pc = "done" /\ f.err = "ErrAuthFailed") => f.tg # f.digest

C2_Witness ==
    \E f \in Frames :
        /\ Returned(f, "Open") /\ f.orig.kind = "ciphertext"
        /\ f.dst = SpareDst /\ Len(f.ciphertext) = 2
        /\ f.err = "ErrAuthFailed" /\ f.ret = NilBytes /\ f.dstArr = SpareDst.arr

\* C3: Open on an input shorter than the tag size (with a nonce of the right
\* length) returns ErrAuthFailed and no plaintext, without faulting.
C3_ShortInputAuthFailed ==
    \A f \in Frames :
        (f.op = "Open" /\ f.pc = "done" /\ Len(f.input) < TagSize
            /\ Len(f.nonce) = NonceSize(k))
        => /\ f.panicked = "no"
           /\ f.err = "ErrAuthFailed"
           /\ f.ret = NilBytes

\* C4: when Seal or Open returns (normally or with ErrAuthFailed), the 64-byte
\* key-stream block, the Poly1305 key and the copy of it passed to tag() hold
\* only zeros.
C4_Scrubbed ==
    \A f \in Frames :
        (f.pc = "done" /\ f.panicked = "no")
        => AllZero(f.subkey) /\ AllZero(f.poly1305Key) /\ AllZero(f.tagKey)

\* C5: Open of an envelope with one bit flipped in its ciphertext, in its tag,
\* in the associated data or in the nonce returns (nil, ErrAuthFailed).
C5_TamperDetected ==
    \A f \in Frames :
        (f.op = "Open" /\ f.pc = "done"
            /\ f.orig.kind \in {"ciphertext", "tag", "data", "nonce"})
        => /\ f.panicked = "no"
           /\ f.err = "ErrAuthFailed"
           /\ f.ret = NilBytes

C5_Witness ==
    \E f \in Frames :
        /\ Returned(f, "Open") /\ f.orig.kind = "nonce"
        /\ f.nonce # f.orig.nonce /\ Len(f.ciphertext) = 2
        /\ f.err = "ErrAuthFailed" /\ f.ret = NilBytes

\* C6: the message tag() hands to the MAC is data || len(data) as 8 bytes
\* little endian || ciphertext || len(ciphertext) as 8 bytes little endian,
\* len(data) + len(ciphertext) + 16 bytes long; no other split of the same
\* bytes into (data, ciphertext) frames to the same message; and Open of an
\* intact envelope frames the message Seal framed.
C6_Framing ==
    \A f \in Frames :
        f.pc \in {"ret", "verify", "decrypt", "done"} /\ f.panicked = "no" /\ f.tg # <<>>
        => /\ f.m = f.data \o LE8(Len(f.data)) \o f.ciphertext \o LE8(Len(f.ciphertext))
           /\ Len(f.m) = Len(f.data) + Len(f.ciphertext) + 16
           /\ LET s == f.data \o f.ciphertext
              IN  \A i \in 0..Len(s) :
                     TagMessage(SubSeq(s, i + 1, Len(s)), SubSeq(s, 1, i)) = f.m
                        => i = Len(f.data)
           /\ (f.op = "Open" /\ f.orig.kind = "intact")
                 => f.m = SealRun(k, NilDst, f.orig.nonce, f.orig.pt, f.orig.data).m

C6_Witness ==
    \E f \in Frames :
        /\ f.op = "Open" /\ f.pc = "verify" /\ f.orig.kind = "intact"
        /\ Len(f.data) = 2 /\ Len(f.ciphertext) = 1
        /\ f.m = f.data \o <<2, 0, 0, 0, 0, 0, 0, 0>>
                    \o f.ciphertext \o <<1, 0, 0, 0, 0, 0, 0, 0>>

C8_LengthIgnoringDst ==
    \A f \in Frames :
        /\ Returned(f, "Seal") => Len(f.ret.bytes) = Len(f.input) + TagSize
        /\ (Returned(f, "Open") /\ f.err = "nil")
              => Len(f.ret.bytes) = Len(f.input) - TagSize

\* C8 amended: Seal returns dst || ciphertext || tag, len(dst) +
\* len(plaintext) + 16 bytes with the tag as the trailing 16; a successful
\* Open returns dst || plaintext, len(dst) + len(ciphertext) - 16 bytes.
C8_LengthWithDst ==
    \A f \in Frames :
        LET prefix == SubSeq(f.dst.arr, 1, f.dst.len)
            n == Len(f.ret.bytes)
        IN  /\ Returned(f, "Seal")
                 => /\ n = f.dst.len + Len(f.input) + 16
                    /\ SubSeq(f.ret.bytes, 1, f.dst.len) = prefix
                    /\ SubSeq(f.ret.bytes, n - 15, n) = f.tg
                    /\ Len(f.tg) = 16
            /\ (Returned(f, "Open") /\ f.err = "nil")
                 => /\ n = f.dst.len + Len(f.input) - 16
                    /\ SubSeq(f.ret.bytes, 1, f.dst.len) = prefix

C8_Witness ==
    \E f \in Frames :
        /\ Returned(f, "Seal") /\ f.dst = SpareDst /\ Len(f.input) = 2
        /\ Len(f.ret.bytes) = 19

\* C9: no Seal or Open step changes the instance (key reference, key bytes,
\* mode flag), and under any interleaving of two callers a finished call's
\* result is the one its own arguments determine: the same as that of the
\* call run alone, and the same as that of the other caller's call with the
\* same arguments.
C9_ResultOfArgs ==
    \A f \in Frames :
        /\ (f.op = "Seal" /\ f.pc = "done")
              => LET r == SealRun(k, f.dst, f.nonce, f.input, f.data)
                 IN  f.ret = r.ret /\ f.panicked = r.panicked
        /\ (f.op = "Open" /\ f.pc = "done")
              => LET r == OpenRun(k, f.dst, f.nonce, f.input, f.data, f.orig)
                 IN  f.ret = r.ret /\ f.err = r.err /\ f.panicked = r.panicked
        /\ \A g \in Frames :
              (f.pc = "done" /\ g.pc = "done" /\ f.op = g.op /\ f.dst = g.dst
                  /\ f.nonce = g.nonce /\ f.input = g.input /\ f.data = g.data)
              => f.ret = g.ret /\ f.err = g.err /\ f.panicked = g.panicked

C9_Stateless ==
    /\ []C9_ResultOfArgs
    /\ [][k.built => k' = k]_vars

C9_Witness ==
    /\ Returned(fr[1], "Seal") /\ Returned(fr[2], "Seal")
    /\ fr[1].input = <<1>> /\ fr[2].input = <<1>>
    /\ fr[1].data = fr[2].data /\ fr[1].nonce = fr[2].nonce
    /\ fr[1].ret = fr[2].ret /\ Len(fr[1].ret.bytes) = 17

\* C10: a call's stream starts at position 0; the Poly1305 key is key-stream
\* bytes 0..31; the 64-byte block is key-stream bytes 0..63; byte i of the
\* payload (plaintext in Seal, ciphertext in Open) is XORed with key-stream
\* byte 64 + i, and nothing else is drawn from the stream.
C10_KeystreamLayout ==
    \A f \in Frames :
        /\ f.pc = "subkey" => f.c.pos = 0
        /\ f.subkey # <<>>
              => /\ f.subkey = [i \in 1..64 |-> KS(f, i - 1)]
                 /\ f.poly1305Key = [i \in 1..32 |-> KS(f, i - 1)]
        /\ (f.op = "Seal" /\ f.pc \in {"tag", "ret", "done"} /\ f.panicked = "no")
              => /\ f.ciphertext = [i \in 1..Len(f.input) |-> Xor(f.input[i], KS(f, 64 + i - 1))]
                 /\ f.c.pos = 64 + Len(f.input)
        /\ (f.op = "Open" /\ f.pc \in {"ret", "done"} /\ f.panicked = "no" /\ f.err = "nil")
              => /\ f.plaintext = [i \in 1..Len(f.ciphertext) |->
                                      Xor(f.ciphertext[i], KS(f, 64 + i - 1))]
                 /\ f.c.pos = 64 + Len(f.ciphertext)
        /\ f.tg # <<>> => f.tagKey = [i \in 1..32 |-> KS(f, i - 1)]

C10_Witness ==
    \E f \in Frames :
        /\ f.op = "Open" /\ f.pc = "ret" /\ Len(f.ciphertext) = 2
        /\ f.c.pos = 66
        /\ f.plaintext = <<Xor(f.ciphertext[1], KS(f, 64)), Xor(f.ciphertext[2], KS(f, 65))>>

====
